---- MODULE Spec2Model ----
(***************************************************************************)
(* x-radar (skill/scripts/x_search.py): the request pipeline of the CLI.   *)
(* One invocation of main() is a run: argument handling, then one or two   *)
(* _get calls (cache lookup, credential, network call, cache write), then  *)
(* ranking, cost accounting and the JSON document written to stdout.       *)
(*                                                                         *)
(* Beside the pipeline (Spec) there are the result ranker on its own       *)
(* (SpecRank), search_recent's request preparation on its own (SpecPrep)   *)
(* and concurrent invocations sharing one cache file (SpecRace).           *)
(*                                                                         *)
(* Strings the code inspects character by character (query, since,         *)
(* username, created_at) are sequences; times are milliseconds.            *)
(***************************************************************************)
EXTENDS Integers, Sequences, FiniteSets, TLC

VARIABLES
    cache,         \* CACHE_DIR: request URL -> file [st, val, mtime]
    dir_writable,  \* whether CACHE_DIR can be created and written
    now,           \* wall clock, milliseconds
    env,           \* os.environ: X_BEARER_TOKEN, TWITTER_BEARER_TOKEN
    pc,            \* "idle", "get", "net", "done"
    args,          \* argparse namespace of the running invocation
    call,          \* the _get call in progress: url, ttl, no_cache, stage
    locals,        \* search_recent / user_tweets locals that outlive a _get
    result,        \* exit code and the document written to stdout
    hist,          \* what this run did: fetch outcomes, network calls
    runs,          \* invocations started so far
    ticks,         \* clock advances so far
    rk,            \* a call of the result ranker on its own: inputs and outputs
    qk,            \* search_recent's request preparation on its own
    cc             \* concurrent invocations sharing one cache file

vars == <<cache, dir_writable, now, env, pc, args, call, locals, result, hist, runs, ticks, rk, qk, cc>>

---------------------------------------------------------------------------
(* Bounds of the model *)
MaxRuns == 2
MaxTicks == 1
MaxLen == 3

(* Pricing model, in thousandths of a USD *)
COST_POST_READ_USD == 5
COST_USER_LOOKUP_USD == 10

---------------------------------------------------------------------------
(* Sequence helpers *)
Range(s) == {s[i] : i \in 1..Len(s)}
Reverse(s) == [i \in 1..Len(s) |-> s[Len(s) + 1 - i]]
Max(a, b) == IF a >= b THEN a ELSE b
Min(a, b) == IF a <= b THEN a ELSE b

(* str.lower() on the characters the model uses *)
LowerChar(c) == CASE c = "H" -> "h" [] c = "D" -> "d" [] c = "I" -> "i" [] c = "S" -> "s" [] OTHER -> c
Lower(s) == [i \in 1..Len(s) |-> LowerChar(s[i])]

(* str.strip(): leading and trailing whitespace removed *)
IsSpace(c) == c = " "
RECURSIVE LStrip(_)
LStrip(s) == IF s # <<>> /\ IsSpace(Head(s)) THEN LStrip(Tail(s)) ELSE s
Strip(s) == Reverse(LStrip(Reverse(LStrip(s))))

(* username.lstrip("@") *)
RECURSIVE LStripAt(_)
LStripAt(s) == IF s # <<>> /\ Head(s) = "@" THEN LStripAt(Tail(s)) ELSE s

EndsWith(s, c) == s # <<>> /\ s[Len(s)] = c
(* sub in s *)
Contains(s, sub) == \E i \in 1..(Len(s) - Len(sub) + 1) : SubSeq(s, i, i + Len(sub) - 1) = sub

(* float(s): whitespace is stripped; over the model's alphabet (digits,   *)
(* letters, blank) the text converts iff it is a non-empty digit string.  *)
Digits == {"0", "1", "2", "3", "4", "5", "6", "7", "8", "9"}
DigitVal(c) == CASE c = "0" -> 0 [] c = "1" -> 1 [] c = "2" -> 2 [] c = "3" -> 3 [] c = "4" -> 4
                 [] c = "5" -> 5 [] c = "6" -> 6 [] c = "7" -> 7 [] c = "8" -> 8 [] c = "9" -> 9
FloatOk(s) == Strip(s) # <<>> /\ \A i \in 1..Len(Strip(s)) : Strip(s)[i] \in Digits
RECURSIVE DecVal(_)
DecVal(s) == IF s = <<>> THEN 0 ELSE 10 * DecVal(SubSeq(s, 1, Len(s) - 1)) + DigitVal(s[Len(s)])
FloatVal(s) == DecVal(Strip(s))

---------------------------------------------------------------------------
(* JSON values as json.loads returns them.  kind "null" is Python None.   *)
NoData == [t |-> "absent", items |-> <<>>, id |-> <<>>]
None == [kind |-> "null", data |-> NoData]
JArray == [kind |-> "array", data |-> NoData]
Obj(d) == [kind |-> "object", data |-> d]
ListData(items) == [t |-> "list", items |-> items, id |-> <<>>]
UserData(id) == [t |-> "user", items |-> <<>>, id |-> id]

(* A metric value inside public_metrics *)
MInt(n) == [t |-> "int", n |-> n]
MNull == [t |-> "null", n |-> 0]
MMissing == [t |-> "missing", n |-> 0]
MText == [t |-> "text", n |-> 0]
Tweet(pm, l, r, rt, c) == [pm |-> pm, like_count |-> l, reply_count |-> r, retweet_count |-> rt, created_at |-> c]

---------------------------------------------------------------------------
(* Exceptions *)
Exc(type, msg) == [type |-> type, msg |-> msg]
NoExc == Exc("", "")
SinceFormatMsg == "--since must be like 1h, 3h, 12h, 1d, 7d"
MissingTokenMsg == "Missing X_BEARER_TOKEN env var"
(* UnicodeDecodeError is a subclass of ValueError *)
ValueErrorTypes == {"ValueError", "UnicodeDecodeError"}

---------------------------------------------------------------------------
(* Cache store *)
File(st, val, mtime) == [st |-> st, val |-> val, mtime |-> mtime]

(* _read_cache: None when the file is missing, older than ttl, or when    *)
(* reading or decoding it raises; otherwise whatever json.loads returns.  *)
_read_cache(url, ttl_seconds) ==
    IF url \notin DOMAIN cache THEN None
    ELSE IF now - cache[url].mtime > ttl_seconds * 1000 THEN None
    ELSE IF cache[url].st # "text" THEN None
    ELSE cache[url].val

_write_cache_only(url, obj) ==
    IF dir_writable THEN [u \in {url} |-> File("text", obj, now)] ELSE cache

_write_cache_truncated(url, obj) ==
    LET cut == IF obj.kind = "object" /\ obj.data.t = "list"
               THEN Obj(ListData(SubSeq(obj.data.items, 1, Min(Len(obj.data.items), args.limit))))
               ELSE obj
    IN  IF dir_writable
        THEN [u \in DOMAIN cache \cup {url} |-> IF u = url THEN File("text", cut, now) ELSE cache[u]]
        ELSE cache

(* _write_cache: the store after writing obj; any failure is swallowed *)
_write_cache(url, obj) ==
    IF dir_writable
    THEN [u \in DOMAIN cache \cup {url} |-> IF u = url THEN File("text", obj, now) ELSE cache[u]]
    ELSE cache

(* _bearer: the token, or the exception it raises *)
Unset == "<unset>"
Truthy(v) == v \notin {Unset, ""}
BearerToken == IF Truthy(env.X_BEARER_TOKEN) THEN env.X_BEARER_TOKEN ELSE env.TWITTER_BEARER_TOKEN
_bearer_unchecked == NoExc
_bearer == IF Truthy(BearerToken) THEN NoExc ELSE Exc("XRadarError", MissingTokenMsg)

---------------------------------------------------------------------------
(* Time window *)
_parse_since(value) ==
    LET raw == Lower(Strip(value))
        num == SubSeq(raw, 1, Len(raw) - 1)
    IN  IF EndsWith(raw, "h")
        THEN IF FloatOk(num) THEN [exc |-> NoExc, ms |-> FloatVal(num) * 3600 * 1000]
             ELSE [exc |-> Exc("ValueError", "could not convert string to float"), ms |-> 0]
        ELSE IF EndsWith(raw, "d")
        THEN IF FloatOk(num) THEN [exc |-> NoExc, ms |-> FloatVal(num) * 86400 * 1000]
             ELSE [exc |-> Exc("ValueError", "could not convert string to float"), ms |-> 0]
        ELSE [exc |-> Exc("ValueError", SinceFormatMsg), ms |-> 0]

(* _to_iso_utc: microseconds dropped, i.e. the time in whole seconds *)
_to_iso_utc(dt) == dt \div 1000

---------------------------------------------------------------------------
(* Result ranker *)
MetricOf(tweet, key) ==
    CASE key = "like_count" -> tweet.like_count
      [] key = "reply_count" -> tweet.reply_count
      [] key = "retweet_count" -> tweet.retweet_count

(* _metric: int(val or 0), 0 when public_metrics or the key is absent or  *)
(* the conversion raises TypeError / ValueError                           *)
_metric(tweet, key) ==
    IF ~tweet.pm THEN 0
    ELSE LET val == MetricOf(tweet, key)
         IN  IF val.t = "int" THEN val.n ELSE 0

_created_at(tweet) == tweet.created_at

(* str < str: code points compared left to right, a proper prefix is less *)
StrLess(a, b) ==
    \E i \in 1..(Min(Len(a), Len(b)) + 1) :
        /\ \A j \in 1..(i - 1) : a[j] = b[j]
        /\ \/ i = Len(a) + 1 /\ i <= Len(b)
           \/ i <= Len(a) /\ i <= Len(b) /\ a[i] < b[i]

_sort_key(tweet, sort) ==
    CASE sort = "likes" -> [m |-> <<_metric(tweet, "like_count"), _metric(tweet, "reply_count")>>, c |-> _created_at(tweet)]
      [] sort = "replies" -> [m |-> <<_metric(tweet, "reply_count"), _metric(tweet, "like_count")>>, c |-> _created_at(tweet)]
      [] sort = "retweets" -> [m |-> <<_metric(tweet, "retweet_count"), _metric(tweet, "like_count")>>, c |-> _created_at(tweet)]
      [] OTHER -> [m |-> <<>>, c |-> _created_at(tweet)]

(* tuple < tuple *)
KeyLess(a, b) ==
    \/ \E i \in 1..Len(a.m) : (\A j \in 1..(i - 1) : a.m[j] = b.m[j]) /\ a.m[i] < b.m[i]
    \/ a.m = b.m /\ StrLess(a.c, b.c)

(* list.sort(key=...): stable, ascending; idx is a sequence of positions  *)
(* of keys.  Each element goes after the sorted elements it is not less   *)
(* than.                                                                  *)
InsertStable(sorted, x, keys) ==
    LET p == Cardinality({i \in 1..Len(sorted) : ~KeyLess(keys[x], keys[sorted[i]])})
    IN  SubSeq(sorted, 1, p) \o <<x>> \o SubSeq(sorted, p + 1, Len(sorted))

RECURSIVE SortAscending(_, _)
SortAscending(idx, keys) ==
    IF idx = <<>> THEN <<>>
    ELSE InsertStable(SortAscending(SubSeq(idx, 1, Len(idx) - 1), keys), idx[Len(idx)], keys)

SortReverse_unstable(idx, keys) == Reverse(SortAscending(idx, keys))

(* list.sort(key=..., reverse=True): the list is reversed, sorted stably  *)
(* ascending, and reversed again                                          *)
SortReverse(idx, keys) == Reverse(SortAscending(Reverse(idx), keys))

Passes_two(t, min_likes, min_replies, min_retweets) ==
    /\ ~(_metric(t, "like_count") < min_likes)
    /\ ~(_metric(t, "reply_count") < min_replies)

(* positions of the tweets _filter_tweets keeps, in input order *)
Passes(t, min_likes, min_replies, min_retweets) ==
    /\ ~(_metric(t, "like_count") < min_likes)
    /\ ~(_metric(t, "reply_count") < min_replies)
    /\ ~(_metric(t, "retweet_count") < min_retweets)

RECURSIVE FilterIdx(_, _, _, _, _)
FilterIdx(tweets, i, min_likes, min_replies, min_retweets) ==
    IF i > Len(tweets) THEN <<>>
    ELSE (IF Passes(tweets[i], min_likes, min_replies, min_retweets) THEN <<i>> ELSE <<>>)
         \o FilterIdx(tweets, i + 1, min_likes, min_replies, min_retweets)

_filter_tweets(tweets, min_likes, min_replies, min_retweets) ==
    LET keep == FilterIdx(tweets, 1, min_likes, min_replies, min_retweets)
    IN  [k \in 1..Len(keep) |-> tweets[keep[k]]]

(* positions (in the filtered list) in ranked order *)
SortedIdx(tweets, sort) ==
    SortReverse([i \in 1..Len(tweets) |-> i], [i \in 1..Len(tweets) |-> _sort_key(tweets[i], sort)])

Rank_truncate_first(tweets, min_likes, min_replies, min_retweets, sort, limit) ==
    LET cut == SubSeq(tweets, 1, Min(Len(tweets), Max(1, limit)))
        kept == _filter_tweets(cut, min_likes, min_replies, min_retweets)
        order == SortedIdx(kept, sort)
    IN  [k \in 1..Len(order) |-> kept[order[k]]]

(* filter, sort, truncate as search_recent and user_tweets do *)
Rank(tweets, min_likes, min_replies, min_retweets, sort, limit) ==
    LET kept == _filter_tweets(tweets, min_likes, min_replies, min_retweets)
        order == SortedIdx(kept, sort)
        sorted == [k \in 1..Len(order) |-> kept[order[k]]]
    IN  SubSeq(sorted, 1, Min(Len(sorted), Max(1, limit)))

---------------------------------------------------------------------------
(* Cost estimate *)
CostEstimate(requests, post_reads, user_lookups) ==
    [requests |-> requests, post_reads |-> post_reads, user_lookups |-> user_lookups,
     estimated_usd |-> post_reads * COST_POST_READ_USD + user_lookups * COST_USER_LOOKUP_USD]
NoCost == CostEstimate(0, 0, 0)

---------------------------------------------------------------------------
(* Request URLs.  urlencode / quote are injective, so a URL is modelled   *)
(* by its endpoint and the parameter values that vary.                    *)
Url(ep, q, n, has_st, st) == [ep |-> ep, q |-> q, max_results |-> n, has_start_time |-> has_st, start_time |-> st]
SearchUrl(q, max_results, has_st, st) == Url("tweets/search/recent", q, max_results, has_st, st)
TweetUrl(id) == Url("tweets", id, 0, FALSE, 0)
UserUrl(u) == Url("users/by/username", u, 0, FALSE, 0)
UserTweetsUrl(user_id) == Url("users/tweets", user_id, 100, FALSE, 0)
NoUrl == Url("", <<>>, 0, FALSE, 0)

(* The _get call in progress *)
Call(url, ttl, no_cache, stage) == [url |-> url, ttl |-> ttl, no_cache |-> no_cache, stage |-> stage]
NoCall == Call(NoUrl, 0, FALSE, "")

(* --since: None or a string *)
Since(s) == [none |-> FALSE, s |-> s]
SinceNone == [none |-> TRUE, s |-> <<>>]
SinceSet(since) == ~since.none /\ since.s # <<>>

NoLocals == [q |-> <<>>, since |-> SinceNone, user_raw |-> None, cache_hit_user |-> FALSE]

---------------------------------------------------------------------------
(* What main() leaves behind: the exit code and the document on stdout *)
Result(exit, shape, code, message, mode, cost, hits, data, q, since) ==
    [exit |-> exit, shape |-> shape, code |-> code, message |-> message, mode |-> mode,
     cost |-> cost, cache_hit |-> hits[1], user_lookup_hit |-> hits[2], tweets_hit |-> hits[3],
     returned |-> Len(data), data |-> data, query |-> q, since |-> since]
NoHits == <<FALSE, FALSE, FALSE>>
NoResult == Result(-1, "", "", <<>>, "", NoCost, NoHits, <<>>, <<>>, SinceNone)

_error_payload(code, message) ==
    Result(-1, "error", code, message, "", NoCost, NoHits, <<>>, <<>>, SinceNone)

(* the except clauses of main, in order: document written, exit code *)
MainExcept(exc) ==
    IF exc.type \in ValueErrorTypes THEN [_error_payload("invalid_arguments", <<exc.msg>>) EXCEPT !.exit = 2]
    ELSE IF exc.type = "XRadarError" THEN [_error_payload("runtime_error", <<exc.msg>>) EXCEPT !.exit = 1]
    ELSE [_error_payload("internal_error", <<exc.type, ": ", exc.msg>>) EXCEPT !.exit = 1]

---------------------------------------------------------------------------
(* search_recent up to its _get call: quick rewrite, time window, URL *)
IS_RETWEET == <<"i", "s", ":", "r", "e", "t", "w", "e", "e", "t">>
IS_REPLY == <<"i", "s", ":", "r", "e", "p", "l", "y">>
H24 == <<"2", "4", "h">>

QuickQuery_always(query) == query \o <<" ", "-">> \o IS_RETWEET \o <<" ", "-">> \o IS_REPLY

QuickQuery(query) ==
    LET ql == Lower(query)
        q1 == IF ~Contains(ql, IS_RETWEET) /\ ~Contains(ql, <<"-">> \o IS_RETWEET)
              THEN query \o <<" ", "-">> \o IS_RETWEET ELSE query
    IN  IF ~Contains(ql, IS_REPLY) /\ ~Contains(ql, <<"-">> \o IS_REPLY)
        THEN q1 \o <<" ", "-">> \o IS_REPLY ELSE q1

SearchPrep(a) ==
    LET q == IF a.quick THEN QuickQuery(a.query) ELSE a.query
        since == IF a.quick /\ ~SinceSet(a.since) THEN Since(H24) ELSE a.since
        parsed == IF SinceSet(since) THEN _parse_since(since.s) ELSE [exc |-> NoExc, ms |-> 0]
        has_st == SinceSet(since)
        start_time == IF has_st THEN _to_iso_utc(now - parsed.ms) ELSE 0
    IN  [exc |-> parsed.exc, q |-> q, since |-> since,
         call |-> Call(SearchUrl(q, IF a.quick THEN 10 ELSE 100, has_st, start_time),
                       IF a.quick THEN 3600 ELSE 900, FALSE, "search")]

---------------------------------------------------------------------------
(* The code that runs after a _get call returns (raw, cache_hit): either  *)
(* the run ends with a result, or user_tweets goes on to its second _get. *)
AttrErr(raw) == Exc("AttributeError", IF raw.kind = "null" THEN "'NoneType' object has no attribute 'get'"
                                      ELSE "'list' object has no attribute 'get'")
Ends(res) == [done |-> TRUE, result |-> res, call |-> NoCall, locals |-> NoLocals]
MissCount_always(hit) == 1
MissCount(hit) == IF hit THEN 0 ELSE 1

AfterSearch(raw, hit) ==
    IF raw.kind # "object" THEN Ends(MainExcept(AttrErr(raw)))
    ELSE IF raw.data.t = "user" THEN Ends(MainExcept(Exc("AttributeError", "'str' object has no attribute 'get'")))
    ELSE Ends(Result(0, "envelope", "", <<>>, "search",
                     CostEstimate(MissCount(hit), IF hit THEN 0 ELSE Len(raw.data.items), 0),
                     NoHits,
                     Rank(raw.data.items, args.min_likes, args.min_replies, args.min_retweets, args.sort, args.limit),
                     locals.q, locals.since))

AfterTweet(raw, hit) ==
    IF raw.kind # "object" THEN Ends(MainExcept(AttrErr(raw)))
    ELSE Ends(Result(0, "envelope", "", <<>>, "tweet",
                     CostEstimate(MissCount(hit), MissCount(hit), 0),
                     <<hit, FALSE, FALSE>>, raw.data.items, <<>>, SinceNone))

AfterUser_no_check(raw, hit) ==
    IF raw.kind # "object" \/ raw.data.t = "list" THEN Ends(MainExcept(AttrErr(raw)))
    ELSE [done |-> FALSE, result |-> NoResult,
          call |-> Call(UserTweetsUrl(raw.data.id), 900, FALSE, "user_tweets"),
          locals |-> [locals EXCEPT !.user_raw = raw, !.cache_hit_user = hit]]

AfterUser(raw, hit) ==
    IF raw.kind # "object" \/ raw.data.t = "list" THEN Ends(MainExcept(AttrErr(raw)))
    ELSE IF raw.data.id = <<>>
    THEN Ends(Result(0, "user_not_found", "", <<"user not found">>, "", NoCost, NoHits, <<>>, <<>>, SinceNone))
    ELSE [done |-> FALSE, result |-> NoResult,
          call |-> Call(UserTweetsUrl(raw.data.id), 900, FALSE, "user_tweets"),
          locals |-> [locals EXCEPT !.user_raw = raw, !.cache_hit_user = hit]]

AfterUserTweets_oneflag(raw, hit) ==
    IF raw.kind # "object" THEN Ends(MainExcept(AttrErr(raw)))
    ELSE IF raw.data.t = "user" THEN Ends(MainExcept(Exc("AttributeError", "'str' object has no attribute 'get'")))
    ELSE Ends(Result(0, "envelope", "", <<>>, "user-tweets",
                     CostEstimate(MissCount(hit), IF hit THEN 0 ELSE Len(raw.data.items), MissCount(hit)),
                     <<FALSE, hit, hit>>,
                     Rank(raw.data.items, args.min_likes, args.min_replies, args.min_retweets, args.sort, args.limit),
                     <<>>, SinceNone))

AfterUserTweets(raw, hit) ==
    IF raw.kind # "object" THEN Ends(MainExcept(AttrErr(raw)))
    ELSE IF raw.data.t = "user" THEN Ends(MainExcept(Exc("AttributeError", "'str' object has no attribute 'get'")))
    ELSE Ends(Result(0, "envelope", "", <<>>, "user-tweets",
                     CostEstimate(MissCount(locals.cache_hit_user) + MissCount(hit),
                                  IF hit THEN 0 ELSE Len(raw.data.items),
                                  MissCount(locals.cache_hit_user)),
                     <<FALSE, locals.cache_hit_user, hit>>,
                     Rank(raw.data.items, args.min_likes, args.min_replies, args.min_retweets, args.sort, args.limit),
                     <<>>, SinceNone))

Continue(raw, hit) ==
    CASE call.stage = "search" -> AfterSearch(raw, hit)
      [] call.stage = "tweet" -> AfterTweet(raw, hit)
      [] call.stage = "user" -> AfterUser(raw, hit)
      [] call.stage = "user_tweets" -> AfterUserTweets(raw, hit)

---------------------------------------------------------------------------
(* Inputs *)
Sorts == {"likes", "replies", "retweets", "recent"}
Queries == {<<"c">>}
SinceValues == {Since(<<>>), Since(<<"a", "b", "c">>), Since(<<"a", "h">>)}
RankParams == {[sort |-> "likes", limit |-> 1, min_likes |-> 0],
               [sort |-> "recent", limit |-> 2, min_likes |-> 5]}
TweetIds == {<<"1">>}
Usernames == {<<"@", "a">>}
NoEnv == [X_BEARER_TOKEN |-> Unset, TWITTER_BEARER_TOKEN |-> Unset]
Envs == {NoEnv, [X_BEARER_TOKEN |-> "", TWITTER_BEARER_TOKEN |-> "tok"]}

Args(cmd, query, rp, since, quick, id, no_cache, username) ==
    [cmd |-> cmd, query |-> query, limit |-> rp.limit, sort |-> rp.sort, since |-> since,
     min_likes |-> rp.min_likes, min_replies |-> 0, min_retweets |-> 0, quick |-> quick,
     id |-> id, no_cache |-> no_cache, username |-> username]
NoRank == [sort |-> "", limit |-> 0, min_likes |-> 0]
NoArgs == Args("", <<>>, NoRank, SinceNone, FALSE, <<>>, FALSE, <<>>)
DefaultRank == [sort |-> "likes", limit |-> 15, min_likes |-> 0]
SearchArgs ==
    {Args("search", q, rp, SinceNone, FALSE, <<>>, FALSE, <<>>) : q \in Queries, rp \in RankParams}
    \cup {Args("search", q, DefaultRank, SinceNone, TRUE, <<>>, FALSE, <<>>) : q \in Queries}
    \cup {Args("search", q, DefaultRank, s, FALSE, <<>>, FALSE, <<>>) : q \in Queries, s \in SinceValues}
TweetArgs == {Args("tweet", <<>>, NoRank, SinceNone, FALSE, id, nc, <<>>) : id \in TweetIds, nc \in BOOLEAN}
UserTweetsArgs == {Args("user-tweets", <<>>, [DefaultRank EXCEPT !.sort = "recent", !.limit = 10], SinceNone, FALSE, <<>>, FALSE, u) : u \in Usernames}

(* What the provider may answer *)
T1 == Tweet(TRUE, MInt(1), MInt(0), MInt(0), <<2, 0, 2, 6, 0, 1, 0, 1>>)
T2 == Tweet(TRUE, MInt(5), MInt(0), MInt(0), <<2, 0, 2, 6, 0, 1, 0, 2>>)
TweetPayloads == {Obj(ListData(<<T1, T2>>)), JArray, None}
UserPayloads == {Obj(UserData(<<"u", "1">>)), Obj(NoData)}
Resp(t, val) == [t |-> t, val |-> val]
Failures == {Resp(t, None) : t \in {"HTTPError", "URLError", "TimeoutError", "undecodable", "badjson"}}
Responses(stage) ==
    Failures \cup {Resp("json", v) : v \in IF stage = "user" THEN UserPayloads ELSE TweetPayloads}

(* Cache directory contents an invocation may find: nothing, readable     *)
(* entries, or files that cannot be decoded or read                       *)
EmptyStore == [u \in {} |-> File("text", None, 0)]
InitStores ==
    {EmptyStore}
    \cup {[u \in {TweetUrl(id), UserTweetsUrl(<<"u", "1">>)} |-> File("text", Obj(ListData(<<T1, T2>>)), 0)] : id \in TweetIds}
    \cup {[u \in {TweetUrl(id), UserTweetsUrl(<<"u", "1">>)} |->
              IF u = TweetUrl(id) THEN File("corrupt", None, 0) ELSE File("unreadable", None, 0)] : id \in TweetIds}

TickSteps == {900000, 900001}

(* The ranker called on its own *)
Rk(stage, tweets, p, kept, order, data, prev) ==
    [stage |-> stage, tweets |-> tweets, sort |-> p.sort, limit |-> p.limit, min_likes |-> p.min_likes,
     min_replies |-> p.min_replies, min_retweets |-> p.min_retweets,
     kept |-> kept, order |-> order, data |-> data, returned |-> Len(data), prev |-> prev]
NoRk == Rk("", <<>>, [sort |-> "", limit |-> 0, min_likes |-> 0, min_replies |-> 0, min_retweets |-> 0], <<>>, <<>>, <<>>, <<>>)

(* search_recent's request preparation called on its own *)
Qk(stage, query, quick, since, t1, q1, url1, q2, url2) ==
    [stage |-> stage, query |-> query, quick |-> quick, since |-> since, t1 |-> t1,
     q1 |-> q1, url1 |-> url1, q2 |-> q2, url2 |-> url2]
NoQk == Qk("", <<>>, FALSE, SinceNone, 0, <<>>, NoUrl, <<>>, NoUrl)

(* Concurrent invocations on one cache file.  The file is its text, page  *)
(* by page: write_text opens with truncation and then copies the text in  *)
(* at the writer's own offset, one page after the other.                  *)
MaxProcs == 3
Page(kind, tag) == [kind |-> kind, tag |-> tag]
Hole == Page("hole", "")
(* json.dumps of a payload with one item per page *)
json_dumps(v) ==
    IF Len(v) = 1 THEN <<Page("whole", v[1])>>
    ELSE [i \in 1..Len(v) |-> Page(IF i = 1 THEN "head" ELSE IF i = Len(v) THEN "tail" ELSE "mid", v[i])]
(* json.loads: one complete document and nothing else, or JSONDecodeError *)
json_loads(pages) ==
    LET n == Len(pages)
        ok == \/ n = 1 /\ pages[1].kind = "whole"
              \/ /\ n >= 2 /\ pages[1].kind = "head" /\ pages[n].kind = "tail"
                 /\ \A i \in 2..(n - 1) : pages[i].kind = "mid"
    IN  [ok |-> ok, val |-> IF ok THEN [i \in 1..n |-> pages[i].tag] ELSE <<>>]
RacePayloads == {<<"a", "a">>, <<"b", "b">>, <<"s">>}
RaceFile(exists, pages, mtime) == [exists |-> exists, pages |-> pages, mtime |-> mtime]
Proc(ppc, payload, off, got, hit) == [pc |-> ppc, payload |-> payload, off |-> off, got |-> got, hit |-> hit]
NoCc == [file |-> RaceFile(FALSE, <<>>, 0), procs |-> <<>>, fetched |-> {}]

---------------------------------------------------------------------------
(* History of the running invocation *)
Event(op, url, val) == [op |-> op, url |-> url, val |-> val]
NoHist == [net |-> 0, events |-> <<>>, cause |-> "", cache0 |-> EmptyStore]
(* the history at the start of main: cache0 is the store the run found *)
StartHist == [NoHist EXCEPT !.cache0 = cache]
Log(h, op, url, val) == [h EXCEPT !.events = Append(@, Event(op, url, val))]

Init ==
    /\ cache \in InitStores
    /\ dir_writable \in BOOLEAN
    /\ now = 0
    /\ env = NoEnv
    /\ pc = "idle"
    /\ args = NoArgs
    /\ call = NoCall
    /\ locals = NoLocals
    /\ result = NoResult
    /\ hist = StartHist
    /\ runs = 0
    /\ ticks = 0
    /\ rk = NoRk
    /\ qk = NoQk
    /\ cc = NoCc

Finish_retry(res, h, cause) ==
    IF cause = "network" /\ h.net < 2
    THEN /\ pc' = "get"
         /\ result' = NoResult
         /\ hist' = h
         /\ UNCHANGED <<call, locals>>
    ELSE /\ pc' = "done"
         /\ result' = res
         /\ call' = NoCall
         /\ locals' = NoLocals
         /\ hist' = [h EXCEPT !.cause = IF res.exit = 0 THEN "" ELSE cause]

(* the run ends: main returns after writing the document *)
Finish(res, h, cause) ==
    /\ pc' = "done"
    /\ result' = res
    /\ call' = NoCall
    /\ locals' = NoLocals
    /\ hist' = [h EXCEPT !.cause = IF res.exit = 0 THEN "" ELSE cause]

(* the code after a _get call has the payload: end of run or next _get *)
Proceed(raw, hit, h, cause) ==
    LET c == Continue(raw, hit)
    IN  IF c.done THEN Finish(c.result, h, cause)
        ELSE /\ pc' = "get"
             /\ call' = c.call
             /\ locals' = c.locals
             /\ result' = NoResult
             /\ hist' = h

(* main: parse_args rejects the command line (usage text, SystemExit 2) *)
InvokeBadArgv ==
    /\ pc = "idle" /\ runs < MaxRuns
    /\ runs' = runs + 1
    /\ args' = NoArgs
    /\ Finish(Result(2, "usage", "", <<>>, "", NoCost, NoHits, <<>>, <<>>, SinceNone), StartHist, "argparse")
    /\ UNCHANGED <<cache, dir_writable, now, env, ticks, rk, qk, cc>>

(* main: a command line is accepted and runs up to its first _get call *)
Invoke(a, e) ==
    /\ pc = "idle" /\ runs < MaxRuns
    /\ runs' = runs + 1
    /\ args' = a
    /\ env' = e
    /\ IF a.cmd = "search"
       THEN LET sp == SearchPrep(a)
            IN  IF sp.exc # NoExc THEN Finish(MainExcept(sp.exc), StartHist, "validation")
                ELSE /\ pc' = "get"
                     /\ call' = sp.call
                     /\ locals' = [NoLocals EXCEPT !.q = sp.q, !.since = sp.since]
                     /\ result' = NoResult
                     /\ hist' = StartHist
       ELSE /\ pc' = "get"
            /\ call' = IF a.cmd = "tweet" THEN Call(TweetUrl(a.id), 900, a.no_cache, "tweet")
                       ELSE Call(UserUrl(LStripAt(a.username)), 900, FALSE, "user")
            /\ locals' = NoLocals
            /\ result' = NoResult
            /\ hist' = StartHist
    /\ UNCHANGED <<cache, dir_writable, now, ticks, rk, qk, cc>>

(* _get, first half: cache lookup, then the credential, then urlopen *)
UseCache_ttl_only == call.ttl > 0
UseCache == ~call.no_cache /\ call.ttl > 0
GetStep ==
    /\ pc = "get"
    /\ LET cached == IF UseCache THEN _read_cache(call.url, call.ttl) ELSE None
           h == IF UseCache THEN Log(hist, IF cached # None THEN "hit" ELSE "miss", call.url, cached) ELSE hist
       IN  IF UseCache /\ cached # None THEN Proceed(cached, TRUE, h, "cached_payload")
           ELSE IF _bearer # NoExc THEN Finish(MainExcept(_bearer), Log(h, "auth_error", call.url, None), "auth")
           ELSE /\ pc' = "net"
                /\ hist' = [Log(h, "urlopen", call.url, None) EXCEPT !.net = @ + 1]
                /\ UNCHANGED <<call, locals, result>>
    /\ UNCHANGED <<cache, dir_writable, now, env, args, runs, ticks, rk, qk, cc>>

(* _get, second half: the network call returns or raises *)
NetStep(resp) ==
    /\ pc = "net"
    /\ resp \in Responses(call.stage)
    /\ CASE resp.t = "HTTPError" ->
              Finish(MainExcept(Exc("XRadarError", "X API request failed")), hist, "network") /\ UNCHANGED cache
         [] resp.t = "URLError" ->
              Finish(MainExcept(Exc("XRadarError", "Network error while calling X API")), hist, "network") /\ UNCHANGED cache
         [] resp.t = "TimeoutError" ->
              Finish(MainExcept(Exc("XRadarError", "Request to X API timed out")), hist, "network") /\ UNCHANGED cache
         [] resp.t = "undecodable" ->
              Finish(MainExcept(Exc("UnicodeDecodeError", "'utf-8' codec can't decode byte")), hist, "body") /\ UNCHANGED cache
         [] resp.t = "badjson" ->
              Finish(MainExcept(Exc("XRadarError", "X API returned invalid JSON response")), hist, "body") /\ UNCHANGED cache
         [] resp.t = "json" ->
              /\ cache' = IF UseCache THEN _write_cache(call.url, resp.val) ELSE cache
              /\ Proceed(resp.val, FALSE,
                         IF UseCache THEN Log(Log(hist, "fetched", call.url, resp.val), "write", call.url, resp.val)
                         ELSE Log(hist, "fetched", call.url, resp.val),
                         "fetched_payload")
    /\ UNCHANGED <<dir_writable, now, env, args, runs, ticks, rk, qk, cc>>

(* main has returned; the next invocation may start *)
Exit ==
    /\ pc = "done"
    /\ pc' = "idle"
    /\ args' = NoArgs /\ result' = NoResult /\ hist' = StartHist /\ env' = NoEnv
    /\ UNCHANGED <<cache, dir_writable, now, call, locals, runs, ticks, rk, qk, cc>>

(* time passes before an invocation *)
Tick(d) ==
    /\ pc = "idle" /\ runs < MaxRuns
    /\ ticks < MaxTicks
    /\ now' = now + d
    /\ ticks' = ticks + 1
    /\ UNCHANGED <<cache, dir_writable, env, pc, args, call, locals, result, hist, runs, rk, qk, cc>>

Next ==
    \/ InvokeBadArgv
    \/ \E a \in SearchArgs \cup TweetArgs \cup UserTweetsArgs, e \in Envs : Invoke(a, e)
    \/ GetStep
    \/ \E resp \in Failures \cup {Resp("json", v) : v \in UserPayloads \cup TweetPayloads} : NetStep(resp)
    \/ Exit
    \/ \E d \in TickSteps : Tick(d)

Spec == Init /\ [][Next]_vars

---------------------------------------------------------------------------
(* Vocabulary of the properties *)
Last(seq) == seq[Len(seq)]
UserEp == "users/by/username"
TweetEps == {"tweets/search/recent", "tweets", "users/tweets"}
HitOn(ep) == \E i \in 1..Len(hist.events) : hist.events[i].op = "hit" /\ hist.events[i].url.ep = ep
NetOn(eps) == \E i \in 1..Len(hist.events) : hist.events[i].op = "urlopen" /\ hist.events[i].url.ep \in eps
AllServedFromCache == hist.events # <<>> /\ \A i \in 1..Len(hist.events) : hist.events[i].op = "hit"
NoCredential == ~Truthy(env.X_BEARER_TOKEN) /\ ~Truthy(env.TWITTER_BEARER_TOKEN)
FreshEntry ==
    /\ call.url \in DOMAIN cache
    /\ cache[call.url].st = "text"
    /\ now - cache[call.url].mtime <= call.ttl * 1000
B(cond) == IF cond THEN 1 ELSE 0

(* C1: a run whose fetches were all cache hits reports zero requests,     *)
(* post reads, user lookups and USD; every non-zero count of the reported *)
(* cost belongs to a fetch of this run that went to the network.          *)
CostOnlyForMisses ==
    pc = "done" =>
        /\ AllServedFromCache =>
              /\ result.cost.requests = 0 /\ result.cost.post_reads = 0
              /\ result.cost.user_lookups = 0 /\ result.cost.estimated_usd = 0
        /\ result.cost.requests <= hist.net
        /\ result.cost.post_reads > 0 => NetOn(TweetEps)
        /\ result.cost.user_lookups > 0 => NetOn({UserEp})
        /\ result.cost.estimated_usd > 0 => hist.net > 0

FullyCachedListing ==
    /\ pc = "done" /\ result.mode = "user-tweets" /\ result.exit = 0
    /\ AllServedFromCache /\ Len(hist.events) = 2
    /\ result.cost.requests = 0 /\ result.returned > 0

(* C2: after a payload is written for a URL, an immediately following     *)
(* fetch of that URL with the cache enabled and ttl > 0 is a cache hit    *)
(* returning that payload, without a network call; a fetch with ttl = 0   *)
(* is never a hit.                                                        *)
CacheRoundTrip ==
    [][/\ (pc = "get" /\ UseCache /\ call.url \in DOMAIN cache
             /\ cache[call.url].st = "text" /\ cache[call.url].mtime = now)
          => /\ hist'.net = hist.net
             /\ Last(hist'.events) = Event("hit", call.url, cache[call.url].val)
       /\ (pc = "get" /\ call.ttl = 0)
          => (hist'.events = <<>> \/ Last(hist'.events).op # "hit")]_vars

(* C3: whatever the cache store holds, no run ends in an error envelope   *)
(* because of it: a run never fails on a payload it took from the cache.  *)
CacheNeverSurfaces ==
    (pc = "done" /\ hist.events # <<>> /\ Last(hist.events).op = "hit") => result.shape # "error"

(* C4: a fetch whose URL has a fresh cache entry succeeds from the cache  *)
(* without a credential, and no network call starts without a credential. *)
LazyCredential ==
    [][/\ (pc = "get" /\ UseCache /\ FreshEntry /\ NoCredential)
          => /\ hist'.net = hist.net
             /\ Last(hist'.events) = Event("hit", call.url, cache[call.url].val)
             /\ result'.message # <<MissingTokenMsg>>
       /\ (pc = "get" /\ pc' = "net") => ~NoCredential]_vars

(* C5 as stated: the single-item fetch with no credential configured      *)
(* always ends with exit code 1, runtime_error, the missing-credential    *)
(* message, and no network call.                                          *)
MissingTokenAlwaysFails ==
    (pc = "done" /\ args.cmd = "tweet" /\ NoCredential) =>
        /\ result.exit = 1 /\ result.shape = "error" /\ result.code = "runtime_error"
        /\ result.message = <<MissingTokenMsg>>
        /\ hist.net = 0

(* C5 amended: the same, when the fetch is not served from the cache.     *)
MissingTokenFailsOnMiss ==
    (pc = "done" /\ args.cmd = "tweet" /\ NoCredential /\ ~HitOn("tweets")) =>
        /\ result.exit = 1 /\ result.shape = "error" /\ result.code = "runtime_error"
        /\ result.message = <<MissingTokenMsg>>
        /\ hist.net = 0

MissingTokenOnStaleEntry ==
    /\ pc = "done" /\ args.cmd = "tweet" /\ NoCredential /\ ~args.no_cache
    /\ TweetUrl(args.id) \in DOMAIN cache /\ cache[TweetUrl(args.id)].st = "text"
    /\ hist.events # <<>> /\ Last(hist.events).op = "auth_error"
    /\ result.exit = 1

(* C6: the per-author listing reports requests = number of its two        *)
(* fetches that missed, user_lookups = 1 iff the user lookup missed,      *)
(* post_reads = raw item count of the tweets payload iff the tweets fetch *)
(* missed (else 0), and one cache flag per fetch.                         *)
TweetsPayloadOf(h) ==
    CHOOSE i \in 1..Len(h.events) : h.events[i].url.ep = "users/tweets" /\ h.events[i].op \in {"hit", "fetched"}
CostAdditivity ==
    (pc = "done" /\ result.mode = "user-tweets") =>
        LET userMiss == ~HitOn(UserEp)
            tweetsMiss == ~HitOn("users/tweets")
            raw == hist.events[TweetsPayloadOf(hist)]
        IN  /\ userMiss <=> NetOn({UserEp})
            /\ tweetsMiss <=> NetOn({"users/tweets"})
            /\ result.cost.requests = B(userMiss) + B(tweetsMiss)
            /\ result.cost.user_lookups = B(userMiss)
            /\ result.cost.post_reads = (IF tweetsMiss THEN Len(raw.val.data.items) ELSE 0)
            /\ result.user_lookup_hit = ~userMiss
            /\ result.tweets_hit = ~tweetsMiss

PartialCacheListing ==
    /\ pc = "done" /\ result.mode = "user-tweets"
    /\ result.user_lookup_hit /\ ~result.tweets_hit
    /\ result.cost.requests = 1 /\ result.cost.user_lookups = 0 /\ result.cost.post_reads = 2

(* C7: every --since value that is not <number><h|d> ends the search with *)
(* exit code 2, invalid_arguments and the message naming the format.      *)
WellFormedSince(s) ==
    LET raw == Lower(Strip(s))
    IN  /\ Len(raw) >= 2
        /\ raw[Len(raw)] \in {"h", "d"}
        /\ \A i \in 1..(Len(raw) - 1) : raw[i] \in Digits
InvalidSinceRejected ==
    (pc = "done" /\ args.cmd = "search" /\ ~args.since.none /\ ~WellFormedSince(args.since.s)) =>
        /\ result.exit = 2 /\ result.shape = "error" /\ result.code = "invalid_arguments"
        /\ result.message = <<SinceFormatMsg>>

(* C8: a run that ends with exit code 2 / invalid_arguments started no    *)
(* network call and failed on user input; a failure during or after a     *)
(* network call ends with exit code 1.                                    *)
ValidationNeverAfterNetwork ==
    pc = "done" =>
        /\ result.exit = 2 => (hist.net = 0 /\ hist.cause \in {"validation", "argparse"})
        /\ (result.exit # 0 /\ hist.net > 0) => result.exit = 1

---------------------------------------------------------------------------
(* The result ranker on its own: lines 283-286 of search_recent (347-350  *)
(* of user_tweets) applied to every short list over RankTweets.           *)
MaxMin == 1
MaxLimit == 2
RankTweets ==
    {Tweet(TRUE, MInt(1), MInt(0), MInt(0), <<0, 1>>),
     Tweet(TRUE, MInt(1), MInt(1), MInt(1), <<0, 1>>),
     Tweet(TRUE, MInt(1), MMissing, MInt(1), <<0, 1>>),
     Tweet(FALSE, MMissing, MMissing, MMissing, <<1, 0>>),
     Tweet(TRUE, MInt(2), MNull, MText, <<>>)}
RankLists == UNION {[1..n -> RankTweets] : n \in 0..MaxLen}
RankInputs ==
    [sort : Sorts, limit : 1..MaxLimit, min_likes : 0..MaxMin, min_replies : 0..MaxMin, min_retweets : 0..MaxMin]

RankApply(tweets, p, prev) ==
    LET keep == FilterIdx(tweets, 1, p.min_likes, p.min_replies, p.min_retweets)
        kept == _filter_tweets(tweets, p.min_likes, p.min_replies, p.min_retweets)
        order == SortedIdx(kept, p.sort)
    IN  Rk(IF prev = <<>> THEN "ranked" ELSE "raised", tweets, p, keep,
           [k \in 1..Len(order) |-> keep[order[k]]],
           Rank(tweets, p.min_likes, p.min_replies, p.min_retweets, p.sort, p.limit),
           prev)

RkParams(r) ==
    [sort |-> r.sort, limit |-> r.limit, min_likes |-> r.min_likes, min_replies |-> r.min_replies,
     min_retweets |-> r.min_retweets]

InitRank ==
    /\ cache = EmptyStore /\ dir_writable = TRUE /\ now = 0 /\ env = NoEnv /\ pc = "idle"
    /\ args = NoArgs /\ call = NoCall /\ locals = NoLocals /\ result = NoResult /\ hist = NoHist
    /\ runs = 0 /\ ticks = 0 /\ qk = NoQk /\ cc = NoCc
    /\ \E tweets \in RankLists, p \in RankInputs : rk = Rk("input", tweets, p, <<>>, <<>>, <<>>, <<>>)

(* filter, sort, truncate *)
RankCall ==
    /\ rk.stage = "input"
    /\ rk' = RankApply(rk.tweets, RkParams(rk), <<>>)
    /\ UNCHANGED <<cache, dir_writable, now, env, pc, args, call, locals, result, hist, runs, ticks, qk, cc>>

(* the same list ranked again with one threshold raised by one *)
RankRaised(key) ==
    /\ rk.stage = "ranked"
    /\ LET p == RkParams(rk)
           q == CASE key = "like_count" -> [p EXCEPT !.min_likes = @ + 1]
                  [] key = "reply_count" -> [p EXCEPT !.min_replies = @ + 1]
                  [] key = "retweet_count" -> [p EXCEPT !.min_retweets = @ + 1]
       IN  rk' = RankApply(rk.tweets, q, <<rk.kept>>)
    /\ UNCHANGED <<cache, dir_writable, now, env, pc, args, call, locals, result, hist, runs, ticks, qk, cc>>

NextRank ==
    \/ RankCall
    \/ \E key \in {"like_count", "reply_count", "retweet_count"} : RankRaised(key)

SpecRank == InitRank /\ [][NextRank]_vars

(* Vocabulary of the ranking properties, independent of the ranker *)
Count(t, key) ==
    IF ~t.pm THEN 0
    ELSE CASE key = "like_count" -> (IF t.like_count.t = "int" THEN t.like_count.n ELSE 0)
           [] key = "reply_count" -> (IF t.reply_count.t = "int" THEN t.reply_count.n ELSE 0)
           [] key = "retweet_count" -> (IF t.retweet_count.t = "int" THEN t.retweet_count.n ELSE 0)
(* created_at as a point in time: two-digit stamps, absent is oldest *)
Recency(t) == IF t.created_at = <<>> THEN -1 ELSE 10 * t.created_at[1] + t.created_at[2]
Composite(t, sort) ==
    CASE sort = "likes" -> <<Count(t, "like_count"), Count(t, "reply_count"), Recency(t)>>
      [] sort = "replies" -> <<Count(t, "reply_count"), Count(t, "like_count"), Recency(t)>>
      [] sort = "retweets" -> <<Count(t, "retweet_count"), Count(t, "like_count"), Recency(t)>>
      [] sort = "recent" -> <<Recency(t)>>
(* a ranks strictly before b under the composite key *)
Before(a, b) == \E i \in 1..Len(a) : (\A j \in 1..(i - 1) : a[j] = b[j]) /\ a[i] > b[i]
Ranked == rk.stage \in {"ranked", "raised"}

(* C9: the ranked output is in descending order of the composite key of   *)
(* the sort mode (primary metric, then secondary metric, then the more    *)
(* recent created_at first), and items with equal keys keep input order.  *)
SortedDescendingStable ==
    Ranked =>
        /\ \A i, j \in 1..Len(rk.order) :
              i < j =>
                 LET a == Composite(rk.tweets[rk.order[i]], rk.sort)
                     b == Composite(rk.tweets[rk.order[j]], rk.sort)
                 IN  /\ ~Before(b, a)
                     /\ a = b => rk.order[i] < rk.order[j]
        /\ Len(rk.data) <= Len(rk.order)
        /\ \A i \in 1..Len(rk.data) : rk.data[i] = rk.tweets[rk.order[i]]

TiesRanked ==
    /\ rk.stage = "ranked" /\ rk.sort = "likes" /\ Len(rk.order) = 3 /\ Len(rk.data) = 2
    /\ rk.order # <<1, 2, 3>>
    /\ \E i, j \in 1..3 :
          /\ i < j
          /\ Composite(rk.tweets[rk.order[i]], "likes") = Composite(rk.tweets[rk.order[j]], "likes")
          /\ rk.tweets[rk.order[i]] # rk.tweets[rk.order[j]]
    /\ \E i, j \in 1..3 :
          /\ Count(rk.tweets[rk.order[i]], "like_count") = Count(rk.tweets[rk.order[j]], "like_count")
          /\ Count(rk.tweets[rk.order[i]], "reply_count") > Count(rk.tweets[rk.order[j]], "reply_count")

(* C10: the filter keeps exactly the items whose like, reply and retweet  *)
(* counts (absent or unparseable counted as 0) all reach their threshold, *)
(* in input order, and raising a threshold keeps a subset.                *)
MeetsThresholds(t) ==
    /\ Count(t, "like_count") >= rk.min_likes
    /\ Count(t, "reply_count") >= rk.min_replies
    /\ Count(t, "retweet_count") >= rk.min_retweets
FilterExactMonotone ==
    Ranked =>
        /\ Range(rk.kept) = {i \in 1..Len(rk.tweets) : MeetsThresholds(rk.tweets[i])}
        /\ \A i, j \in 1..Len(rk.kept) : i < j => rk.kept[i] < rk.kept[j]
        /\ rk.stage = "raised" => Range(rk.kept) \subseteq Range(rk.prev[1])

ThresholdRaisedDrops ==
    /\ rk.stage = "raised" /\ rk.min_likes = 1 /\ rk.min_replies = 0 /\ rk.min_retweets = 0
    /\ Range(rk.kept) # Range(rk.prev[1])
    /\ \E i \in Range(rk.kept) : rk.tweets[i].reply_count.t # "int"
    /\ \E i \in Range(rk.prev[1]) \ Range(rk.kept) : rk.tweets[i].like_count.t # "int" \/ ~rk.tweets[i].pm

(* C11: the returned data is the first min(limit, n) items of the         *)
(* filtered-then-sorted list (n items pass the filters): never more than  *)
(* limit items, `returned` is its length, and every passing item whose    *)
(* rank among the passing items is within limit is returned at that rank. *)
Passing == {i \in 1..Len(rk.tweets) : MeetsThresholds(rk.tweets[i])}
Outranks(i, j) ==
    LET a == Composite(rk.tweets[i], rk.sort)
        b == Composite(rk.tweets[j], rk.sort)
    IN  Before(a, b) \/ (a = b /\ i < j)
PlaceOf(i) == 1 + Cardinality({j \in Passing : Outranks(j, i)})
TruncationLast ==
    Ranked =>
        /\ Len(rk.data) = Min(rk.limit, Cardinality(Passing))
        /\ Len(rk.data) <= rk.limit
        /\ rk.returned = Len(rk.data)
        /\ \A i \in Passing : PlaceOf(i) <= rk.limit => rk.data[PlaceOf(i)] = rk.tweets[i]

TruncatedAfterRanking ==
    /\ rk.stage = "ranked" /\ Len(rk.tweets) = 3 /\ rk.limit = 1
    /\ ~MeetsThresholds(rk.tweets[1])
    /\ Cardinality(Passing) = 2 /\ Outranks(3, 2)
    /\ rk.tweets[2] # rk.tweets[3]
    /\ rk.data = <<rk.tweets[3]>>

(* C12: in the per-author listing, once the username lookup has returned  *)
(* a payload without an author id, the run ends with the 'user not found' *)
(* result and nothing is done for the tweets URL: no cache read, no cache *)
(* write, no network call.                                                *)
UserLookupEmpty ==
    \E i \in 1..Len(hist.events) :
        /\ hist.events[i].url.ep = UserEp /\ hist.events[i].op \in {"hit", "fetched"}
        /\ hist.events[i].val.kind = "object" /\ hist.events[i].val.data.t # "list"
        /\ hist.events[i].val.data.id = <<>>
NotFoundShortCircuits ==
    (args.cmd = "user-tweets" /\ UserLookupEmpty) =>
        /\ pc = "done" /\ call = NoCall
        /\ result.exit = 0 /\ result.shape = "user_not_found"
        /\ \A i \in 1..Len(hist.events) : hist.events[i].url.ep # "users/tweets"
        /\ hist.net <= 1
        /\ \A u \in DOMAIN cache :
              u.ep = "users/tweets" => (u \in DOMAIN hist.cache0 /\ cache[u] = hist.cache0[u])

NotFoundBesideCachedTweets ==
    /\ pc = "done" /\ args.cmd = "user-tweets" /\ result.shape = "user_not_found"
    /\ hist.net = 1 /\ Last(hist.events).op \in {"write", "fetched"}
    /\ \E u \in DOMAIN cache : u.ep = "users/tweets"

(* C13: every invocation ends with one JSON document on stdout and exit   *)
(* code 0 with the response envelope, 2 with the invalid_arguments error  *)
(* envelope, or 1 with the runtime_error / internal_error envelope; no    *)
(* error is reported in any other shape.                                  *)
StructuredOutcome ==
    pc = "done" =>
        /\ result.exit \in {0, 1, 2}
        /\ result.exit = 0 => result.shape = "envelope"
        /\ result.exit = 2 => (result.shape = "error" /\ result.code = "invalid_arguments")
        /\ result.exit = 1 => (result.shape = "error" /\ result.code \in {"runtime_error", "internal_error"})

(* C14: no retries, fetches strictly one after the other.  A run makes at *)
(* most one network call per URL, at most 2 in all and at most 1 for      *)
(* search and tweet; a fetch that failed (credential, provider, network   *)
(* or body error) is the last thing the run did and the run ends in an    *)
(* error; nothing happens on the tweets URL of a listing before the user  *)
(* lookup has delivered its payload.                                      *)
Ev(i) == hist.events[i]
FailedAt(i) ==
    \/ Ev(i).op = "auth_error"
    \/ /\ Ev(i).op = "urlopen"
       /\ ~\E j \in (i + 1)..Len(hist.events) : Ev(j).op = "fetched" /\ Ev(j).url = Ev(i).url
NoRetrySequential ==
    /\ hist.net = Cardinality({i \in 1..Len(hist.events) : Ev(i).op = "urlopen"})
    /\ hist.net <= 2
    /\ args.cmd \in {"search", "tweet"} => hist.net <= 1
    /\ \A i, j \in 1..Len(hist.events) :
          (i < j /\ Ev(i).op = "urlopen" /\ Ev(j).op = "urlopen") => Ev(i).url # Ev(j).url
    /\ \A i \in 1..Len(hist.events) :
          FailedAt(i) =>
             /\ i = Len(hist.events)
             /\ \/ pc = "net" /\ Ev(i).op = "urlopen"
                \/ pc = "done" /\ result.shape = "error" /\ result.exit # 0
    /\ \A j \in 1..Len(hist.events) :
          Ev(j).url.ep = "users/tweets" =>
             \E i \in 1..(j - 1) : Ev(i).url.ep = UserEp /\ Ev(i).op \in {"hit", "fetched"}

SecondFetchFailed ==
    /\ pc = "done" /\ args.cmd = "user-tweets" /\ hist.net = 2
    /\ Last(hist.events).op = "urlopen" /\ Last(hist.events).url.ep = "users/tweets"
    /\ result.exit = 1 /\ result.code = "runtime_error"

---------------------------------------------------------------------------
(* Concurrent invocations: MaxProcs runs of _get on one URL with ttl 900, *)
(* a credential configured and the provider answering; each step is one   *)
(* file operation of one run.                                             *)
RaceFrame == UNCHANGED <<cache, dir_writable, now, env, pc, args, call, locals, result, hist, runs, ticks, rk, qk>>

InitRace ==
    /\ cache = EmptyStore /\ dir_writable = TRUE /\ now = 0 /\ env = NoEnv /\ pc = "idle"
    /\ args = NoArgs /\ call = NoCall /\ locals = NoLocals /\ result = NoResult /\ hist = NoHist
    /\ runs = 0 /\ ticks = 0 /\ rk = NoRk /\ qk = NoQk
    /\ cc = [NoCc EXCEPT !.procs = [p \in 1..MaxProcs |-> Proc("start", <<>>, 0, <<>>, FALSE)]]

(* _read_cache of the file as it is now: None unless it exists, is fresh  *)
(* and its text is a complete JSON document                               *)
RaceRead(p) ==
    /\ cc.procs[p].pc = "start"
    /\ LET f == cc.file
           doc == json_loads(f.pages)
           cached == f.exists /\ ~(now - f.mtime > 900 * 1000) /\ doc.ok
       IN  cc' = [cc EXCEPT !.procs[p] = IF cached THEN Proc("done", <<>>, 0, doc.val, TRUE)
                                          ELSE Proc("fetch", <<>>, 0, <<>>, FALSE)]
    /\ RaceFrame

(* the network call returns the payload v *)
RaceFetch(p, v) ==
    /\ cc.procs[p].pc = "fetch"
    /\ cc' = [cc EXCEPT !.procs[p] = Proc("open", v, 0, <<>>, FALSE), !.fetched = @ \cup {v}]
    /\ RaceFrame

(* write_text opens the file for writing: created or truncated *)
RaceOpen(p) ==
    /\ cc.procs[p].pc = "open"
    /\ cc' = [cc EXCEPT !.file = RaceFile(TRUE, <<>>, now), !.procs[p].pc = "write"]
    /\ RaceFrame

(* the next page of the text goes to the writer's offset; the file grows  *)
(* (with a hole, if another writer truncated it meanwhile) or the page    *)
(* replaces what is there                                                 *)
RaceWritePage(p) ==
    /\ cc.procs[p].pc = "write"
    /\ LET me == cc.procs[p]
           text == json_dumps(me.payload)
           k == me.off + 1
           old == cc.file.pages
           n == Max(Len(old), k)
           pages == [i \in 1..n |-> IF i = k THEN text[k] ELSE IF i <= Len(old) THEN old[i] ELSE Hole]
           last == k = Len(text)
       IN  cc' = [cc EXCEPT !.file = RaceFile(TRUE, pages, now),
                            !.procs[p] = IF last THEN Proc("done", me.payload, k, me.payload, FALSE)
                                         ELSE [me EXCEPT !.off = k]]
    /\ RaceFrame

NextRace ==
    \/ \E p \in 1..MaxProcs : RaceRead(p)
    \/ \E p \in 1..MaxProcs, v \in RacePayloads : RaceFetch(p, v)
    \/ \E p \in 1..MaxProcs : RaceOpen(p)
    \/ \E p \in 1..MaxProcs : RaceWritePage(p)

SpecRace == InitRace /\ [][NextRace]_vars

(* C15: whatever the interleaving, a cache read is a miss or returns a    *)
(* complete payload that some invocation fetched for the URL, never a     *)
(* partial or mixed one.                                                  *)
RaceReadsComplete ==
    \A p \in DOMAIN cc.procs : cc.procs[p].hit => cc.procs[p].got \in cc.fetched

(* C16: the cache holds the decoded provider payload as it came, before   *)
(* filtering, sorting and truncation; a run served from the cache returns *)
(* the ranking of that payload under its own ranking parameters, as a run *)
(* that fetched the payload would; the request URL does not depend on the *)
(* ranking parameters.                                                    *)
RankedOf(raw) ==
    Rank(raw.data.items, args.min_likes, args.min_replies, args.min_retweets, args.sort, args.limit)
LastPayload ==
    Ev(CHOOSE i \in 1..Len(hist.events) :
          /\ Ev(i).op \in {"hit", "fetched"} /\ Ev(i).url.ep \in TweetEps
          /\ \A j \in (i + 1)..Len(hist.events) : Ev(j).op \notin {"hit", "fetched"})
RawCachedReRanked ==
    /\ (pc = "done" /\ result.shape = "envelope" /\ result.mode \in {"search", "user-tweets"}) =>
          result.data = RankedOf(LastPayload.val)
    /\ \A u \in DOMAIN cache :
          cache[u].st = "text" => cache[u].val \in TweetPayloads \cup UserPayloads
    /\ \A i \in 1..Len(hist.events) :
          (Ev(i).op = "write" /\ dir_writable) =>
             /\ Ev(i - 1).op = "fetched" /\ Ev(i - 1).url = Ev(i).url
             /\ cache[Ev(i).url] = File("text", Ev(i - 1).val, now)
    /\ (pc = "get" /\ call.stage = "search") =>
          \A rp \in RankParams \cup {DefaultRank} :
             SearchPrep([args EXCEPT !.sort = rp.sort, !.limit = rp.limit, !.min_likes = rp.min_likes]).call.url
                = call.url

ReRankedFromCache ==
    /\ pc = "done" /\ result.mode = "search" /\ result.exit = 0 /\ runs = 2
    /\ Last(hist.events).op = "hit"
    /\ args.limit = 1 /\ result.data = <<T2>>
    /\ Last(hist.events).val.data.items = <<T1, T2>>
    /\ cache[Last(hist.events).url].val.data.items = <<T1, T2>>

---------------------------------------------------------------------------
(* search_recent's request preparation on its own (lines 248-280): the    *)
(* quick rewrite, the time window and the URL, for queries of up to       *)
(* MaxWords words, prepared once and, after some time, once again.        *)
MaxWords == 2
QueryWords ==
    {<<"c">>, IS_REPLY, <<"-">> \o IS_REPLY, IS_RETWEET, <<"-">> \o IS_RETWEET,
     <<"I", "S", ":", "r", "e", "p", "l", "y">>}
RECURSIVE JoinWords(_)
JoinWords(ws) ==
    IF ws = <<>> THEN <<>>
    ELSE IF Len(ws) = 1 THEN ws[1]
    ELSE ws[1] \o <<" ">> \o JoinWords(Tail(ws))
PrepQueries == {JoinWords(ws) : ws \in UNION {[1..n -> QueryWords] : n \in 1..MaxWords}}
PrepSince == {SinceNone, Since(<<"1", "h">>), Since(<<" ", "1", "H">>)}
PrepSteps == {400, 1000, 900000}
PrepArgs(query, quick, since) == Args("search", query, DefaultRank, since, quick, <<>>, FALSE, <<>>)
PrepFrame == UNCHANGED <<cache, dir_writable, env, pc, args, call, locals, result, hist, runs, rk, cc>>

InitPrep ==
    /\ cache = EmptyStore /\ dir_writable = TRUE /\ now = 0 /\ env = NoEnv /\ pc = "idle"
    /\ args = NoArgs /\ call = NoCall /\ locals = NoLocals /\ result = NoResult /\ hist = NoHist
    /\ runs = 0 /\ ticks = 0 /\ rk = NoRk /\ cc = NoCc
    /\ \E query \in PrepQueries, quick \in BOOLEAN, since \in PrepSince :
          qk = Qk("input", query, quick, since, 0, <<>>, NoUrl, <<>>, NoUrl)

(* search_recent up to line 280 *)
Prep ==
    /\ qk.stage = "input"
    /\ LET sp == SearchPrep(PrepArgs(qk.query, qk.quick, qk.since))
       IN  qk' = [qk EXCEPT !.stage = "sent", !.t1 = now, !.q1 = sp.q, !.url1 = sp.call.url]
    /\ UNCHANGED <<now, ticks>>
    /\ PrepFrame

(* time passes between the two calls *)
PrepTick(d) ==
    /\ qk.stage = "sent" /\ ticks < MaxTicks
    /\ now' = now + d /\ ticks' = ticks + 1
    /\ UNCHANGED qk
    /\ PrepFrame

(* the same arguments prepared again (url2), and the rewritten query      *)
(* given back as the query (q2)                                           *)
PrepAgain ==
    /\ qk.stage = "sent"
    /\ qk' = [qk EXCEPT !.stage = "again",
                        !.url2 = SearchPrep(PrepArgs(qk.query, qk.quick, qk.since)).call.url,
                        !.q2 = SearchPrep(PrepArgs(qk.q1, qk.quick, qk.since)).q]
    /\ UNCHANGED <<now, ticks>>
    /\ PrepFrame

NextPrep ==
    \/ Prep
    \/ \E d \in PrepSteps : PrepTick(d)
    \/ PrepAgain

SpecPrep == InitPrep /\ [][NextPrep]_vars

(* C17: quick mode appends ' -is:retweet' exactly when the query has no   *)
(* retweet qualifier and ' -is:reply' exactly when it has no reply        *)
(* qualifier (with or without the minus, in any letter case); without     *)
(* quick mode the query is sent as given; rewriting a rewritten query     *)
(* appends nothing.                                                       *)
Mentions(q, dim) == Contains(Lower(q), dim)
Exclusion(dim) == <<" ", "-">> \o dim
QuickRewriteExact ==
    qk.stage \in {"sent", "again"} =>
        /\ qk.url1.q = qk.q1
        /\ ~qk.quick => qk.q1 = qk.query
        /\ qk.quick =>
              qk.q1 = qk.query
                      \o (IF Mentions(qk.query, IS_RETWEET) THEN <<>> ELSE Exclusion(IS_RETWEET))
                      \o (IF Mentions(qk.query, IS_REPLY) THEN <<>> ELSE Exclusion(IS_REPLY))
        /\ qk.stage = "again" => qk.q2 = qk.q1

QuickKeepsReplyQualifier ==
    /\ qk.stage = "again" /\ qk.quick
    /\ Contains(qk.query, IS_REPLY) /\ ~Contains(qk.query, <<"-">> \o IS_REPLY)
    /\ ~Mentions(qk.query, IS_RETWEET)
    /\ qk.q1 = qk.query \o Exclusion(IS_RETWEET)
    /\ qk.q2 = qk.q1

(* C18: the store changes only by the writes of successful fetches.  It   *)
(* is the store the run found, with the payload of each fetch that got a  *)
(* decoded 2xx body written whole under that fetch's URL; a failed fetch  *)
(* changes nothing and no entry ever disappears.                          *)
WrittenUrls == {Ev(i).url : i \in {j \in 1..Len(hist.events) : Ev(j).op = "write" /\ dir_writable}}
LastWrite(u) ==
    Ev(CHOOSE i \in 1..Len(hist.events) :
          /\ Ev(i).op = "write" /\ Ev(i).url = u
          /\ \A j \in (i + 1)..Len(hist.events) : ~(Ev(j).op = "write" /\ Ev(j).url = u))
OnlySuccessfulFetchWrites ==
    /\ cache = [u \in DOMAIN hist.cache0 \cup WrittenUrls |->
                   IF u \in WrittenUrls THEN File("text", LastWrite(u).val, now) ELSE hist.cache0[u]]
    /\ DOMAIN hist.cache0 \subseteq DOMAIN cache
    /\ \A i \in 1..Len(hist.events) :
          Ev(i).op = "write" =>
             /\ i >= 3
             /\ Ev(i - 1) = Event("fetched", Ev(i).url, Ev(i).val)
             /\ Ev(i - 2) = Event("urlopen", Ev(i).url, None)
    /\ \A i \in 1..Len(hist.events) :
          FailedAt(i) => \A j \in 1..Len(hist.events) : Ev(j).op = "write" => Ev(j).url # Ev(i).url
    /\ (pc = "done" /\ hist.events # <<>> /\ FailedAt(Len(hist.events)) /\ args.cmd \in {"search", "tweet"}) =>
          cache = hist.cache0

FailedFetchKeepsEntry ==
    /\ pc = "done" /\ args.cmd = "tweet" /\ ~args.no_cache
    /\ Len(hist.events) = 2 /\ Ev(1).op = "miss" /\ Ev(2).op = "urlopen"
    /\ result.exit = 1
    /\ TweetUrl(args.id) \in DOMAIN cache
    /\ cache[TweetUrl(args.id)] = File("text", Obj(ListData(<<T1, T2>>)), 0)
    /\ now > 0

(* C19: a fetch with no_cache set never reads or writes the cache: it     *)
(* goes to the network or fails on the missing credential, never reports  *)
(* a cache hit, and leaves the store exactly as the run found it.         *)
BypassLeavesCache ==
    (args.cmd = "tweet" /\ args.no_cache) =>
        /\ cache = hist.cache0
        /\ \A i \in 1..Len(hist.events) : Ev(i).op \notin {"hit", "miss", "write"}
        /\ pc = "done" =>
              /\ ~result.cache_hit
              /\ \/ hist.net = 1 /\ Ev(1).op = "urlopen"
                 \/ /\ hist.net = 0 /\ NoCredential /\ hist.events = <<Event("auth_error", TweetUrl(args.id), None)>>
                    /\ result.exit = 1 /\ result.message = <<MissingTokenMsg>>
              /\ result.exit = 0 => (result.cost.requests = 1 /\ result.cost.post_reads = 1)

BypassBesideFreshEntry ==
    /\ pc = "done" /\ args.cmd = "tweet" /\ args.no_cache
    /\ result.exit = 0 /\ hist.net = 1
    /\ TweetUrl(args.id) \in DOMAIN cache
    /\ cache[TweetUrl(args.id)].st = "text"
    /\ now > cache[TweetUrl(args.id)].mtime /\ now - cache[TweetUrl(args.id)].mtime <= 900 * 1000

(* C20: the request URL of a search is determined by query, quick flag    *)
(* and since value alone: prepared at any two times, the same arguments   *)
(* give the same URL (so that the second call finds the first one's       *)
(* cache entry).                                                          *)
SignatureFromArgsAlone ==
    qk.stage = "again" => qk.url2 = qk.url1

====
